---- MODULE Spec2Model ----
(***************************************************************************)
(* A model of publish-immutable-action: the registry client               *)
(* (publishOCIArtifact, uploadLayer and uploadManifest) and the action's   *)
(* main function (run) of src/src/ghcr-client.ts.                          *)
(*                                                                         *)
(* Spec: one behaviour is one call of publishOCIArtifact against a         *)
(* registry whose answers are chosen nondeterministically; the layer       *)
(* upload tasks interleave at their awaits, as the promises of the         *)
(* JavaScript event loop do.                                               *)
(* SpecRun: one behaviour is one call of run, with the collaborators'      *)
(* outcomes chosen nondeterministically and the publish of Spec inside.    *)
(***************************************************************************)
EXTENDS Integers, Sequences, FiniteSets, Bags, TLC

VARIABLES
    token,        \* the token argument of publishOCIArtifact
    manifest,     \* the manifest argument: [config, layers]
    semverArg,    \* the semver argument; "" when no version tag is given
    b64Token,     \* const b64Token (line 27); <<>> before the call starts
    pub,          \* the promise of publishOCIArtifact: [pc, err, url]
    tasks,        \* layerUploads: one uploadLayer promise per entry of the map
    requests,     \* bag of the requests handed to the HTTP client
    manifestResp, \* the registry's answer to the manifest PUT
    env,          \* what run reads from its environment, and what it ignores
    rpc,          \* where run stands; "none" when publishOCIArtifact is called alone
    stages,       \* the stages run has entered, in order
    tmpDirs,      \* const tmpDirs (line 229)
    dirs,         \* the temp directories of the run that exist on disk
    failures,     \* the messages given to core.setFailed, in order
    outputs,      \* the calls of core.setOutput, in order: [name, value]
    caught,       \* the value the catch clause of run received, NoThrown if none
    escaped,      \* the error the promise of run rejects with, NoErr if none
    manifestHash, \* const manifestHash (line 286); "" before it is computed
    consolidated, \* what getConsolidatedDirectory returned (line 259)
    removeCalls,  \* the paths given to fsHelper.removeDir, in order
    builds,       \* the manifests built and hashed: [inputs, manifest, digest]
    reg,          \* the registry's blobs over two publishes: [blobs, attempt, first]
    answers       \* the registry's answers when they are fixed: [layer, manifest]

pvars ==
    <<token, manifest, semverArg, b64Token, pub, tasks, requests, manifestResp>>

rvars ==
    <<env, rpc, stages, tmpDirs, dirs, failures, outputs, caught, escaped,
      manifestHash, consolidated, removeCalls>>

dvars == <<builds, reg, answers>>

vars == <<pvars, rvars, dvars>>

(***************************************************************************)
(* Bounds of the model.                                                    *)
(***************************************************************************)
MaxLayers == 3

(***************************************************************************)
(* Small helpers.                                                          *)
(***************************************************************************)
MinOf(S) == CHOOSE x \in S : \A y \in S : x <= y

InjectiveSeqs(S, n) ==
    {s \in [1..n -> S] : \A i, j \in 1..n : i # j => s[i] # s[j]}

(***************************************************************************)
(* Base64, as Buffer.from(token).toString('base64') computes it.  A token  *)
(* is a sequence of bytes; the encoding is a sequence of sextets 0..63,    *)
(* with 64 standing for the padding character '='.                         *)
(***************************************************************************)
Pad == 64

RECURSIVE Base64(_)
Base64(bytes) ==
    IF Len(bytes) = 0 THEN <<>>
    ELSE IF Len(bytes) = 1 THEN
        <<bytes[1] \div 4, (bytes[1] % 4) * 16, Pad, Pad>>
    ELSE IF Len(bytes) = 2 THEN
        <<bytes[1] \div 4,
          (bytes[1] % 4) * 16 + bytes[2] \div 16,
          (bytes[2] % 16) * 4,
          Pad>>
    ELSE
        <<bytes[1] \div 4,
          (bytes[1] % 4) * 16 + bytes[2] \div 16,
          (bytes[2] % 16) * 4 + bytes[3] \div 64,
          bytes[3] % 64>>
        \o Base64(SubSeq(bytes, 4, Len(bytes)))

(***************************************************************************)
(* Inputs of publishOCIArtifact.                                           *)
(***************************************************************************)
MediaTar    == "application/vnd.github.actions.package.layer.v1.tar+gzip"
MediaZip    == "application/vnd.github.actions.package.layer.v1.zip"
MediaConfig == "application/vnd.github.actions.package.config.v1+json"
MediaOther  == "application/json"

KnownMediaTypes == {MediaTar, MediaZip, MediaConfig}
MediaTypes      == KnownMediaTypes \cup {MediaOther}

\* the digest of the empty config blob, and the digests of the archives
EmptySha == "sha256:e3b0c4"
ShaA     == "sha256:1234567890"
ShaB     == "sha256:abcdef"
ShaC     == "sha256:c0ffee"

\* FileMetadata of the two archives handed to publishOCIArtifact
tarFile == [path |-> "test-repo-1.2.3.tar.gz", size |-> 456]
zipFile == [path |-> "test-repo-1.2.3.zip", size |-> 123]

repository == "test-org/test-repo"
semver     == "1.2.3"

\* the semver argument of a publish without a version tag
NoTag == ""

\* A layer descriptor of the given media type; sameSha says whether the two
\* archives carry the same digest (as the fixtures of the tests do).
Layer(mt, sameSha) ==
    IF mt = MediaTar THEN
        [mediaType |-> mt, size |-> tarFile.size, digest |-> ShaA]
    ELSE IF mt = MediaZip THEN
        [mediaType |-> mt, size |-> zipFile.size,
         digest |-> IF sameSha THEN ShaA ELSE ShaB]
    ELSE [mediaType |-> mt, size |-> 0, digest |-> EmptySha]

\* The config descriptor: the empty config blob, or a blob of its own.
Configs ==
    {[mediaType |-> MediaConfig, size |-> 0, digest |-> EmptySha],
     [mediaType |-> MediaConfig, size |-> 2, digest |-> ShaC]}

\* Manifests: one to MaxLayers layers of distinct media types, in any order.
Manifests ==
    {[config |-> c, layers |-> [i \in DOMAIN s |-> Layer(s[i], same)]] :
        c \in Configs, same \in BOOLEAN,
        s \in UNION {InjectiveSeqs(MediaTypes, k) : k \in 1..MaxLayers}}

\* Tokens, as byte sequences of the three lengths base64 pads differently.
Tokens == {<<116>>, <<116, 255>>, <<116, 101, 115>>}

(***************************************************************************)
(* The registry's answers.  A response is [status, statusText, body,       *)
(* location, digest]: location and digest are the response headers the     *)
(* protocol reads, Undefined when the header is absent.  A body is its raw *)
(* text together with the structured errors that text parses to.           *)
(***************************************************************************)
Undefined == "<undefined>"

NoBody == [raw |-> "", errors |-> {}]

Body(raw, errs) == [raw |-> raw, errors |-> errs]

Resp(status, statusText, body, location, digest) ==
    [status |-> status, statusText |-> statusText, body |-> body,
     location |-> location, digest |-> digest]

NoResp == Resp(0, "", NoBody, Undefined, Undefined)

Unavailable ==
    Resp(503, "Service Unavailable", Body("503 Service Unavailable", {}),
         Undefined, Undefined)

HeadResponses ==
    {Resp(200, "OK", NoBody, Undefined, Undefined),
     Resp(202, "Accepted", NoBody, Undefined, Undefined),
     Resp(404, "Not Found",
          Body("blob not found body",
               {[code |-> "NOT_FOUND", message |-> "blob not found."]}),
          Undefined, Undefined),
     Unavailable}

Locations == {"/v2/test-org/test-repo/blobs/uploads/u1",
              "/v2/test-org/test-repo/blobs/uploads/u2"}

PostResponses ==
    {Resp(202, "Accepted", NoBody, loc, Undefined) : loc \in Locations}
    \cup {Resp(202, "Accepted", NoBody, Undefined, Undefined), Unavailable}

PutBlobResponses ==
    {Resp(201, "Created", NoBody, Undefined, Undefined),
     Resp(400, "Bad Request",
          Body("digest issue body",
               {[code |-> "BAD_REQUEST", message |-> "digest issue."]}),
          Undefined, Undefined)}

\* JSON.stringify(manifest), and the sha256 digest of that text, kept
\* symbolic: the digest of a text is the text itself behind the prefix
Stringify(m) == ToString(m)

ManifestDigest(m) == "sha256:" \o Stringify(m)

GarbageDigest == "some-garbage-digest"

PutManifestResponses(m) ==
    {Resp(201, "Created", NoBody, Undefined, d) :
        d \in {ManifestDigest(m), GarbageDigest}}
    \cup {Resp(400, "Bad Request",
               Body("tag already exists body",
                    {[code |-> "BAD_REQUEST",
                      message |-> "tag already exists."]}),
               Undefined, Undefined)}

(***************************************************************************)
(* Errors.  An Error is the template of its message (kind), the status     *)
(* code the message states (0 when it states none) and the set of texts    *)
(* interpolated into the message.                                          *)
(***************************************************************************)
Err(kind, status, text) == [kind |-> kind, status |-> status, text |-> text]

NoErr == Err("", 0, {})

ReadError == Err("failed to read a file", 0, {})

(***************************************************************************)
(* Requests.  A request is [method, url, auth, body, layer]; layer is the  *)
(* index in manifest.layers of the task that sent it, 0 for the manifest.  *)
(***************************************************************************)
checkBlobEndpoint  == "v2/" \o repository \o "/blobs/"
uploadBlobEndpoint == "v2/" \o repository \o "/blobs/uploads/"
manifestEndpoint   == "v2/" \o repository \o "/manifests/" \o semverArg

Authorization(b64) == <<"Bearer", b64>>

Req(method, url, b64, body, layer) ==
    [method |-> method, url |-> url, auth |-> Authorization(b64),
     body |-> body, layer |-> layer]

\* the switch of publishOCIArtifact: the file uploaded for a layer
FileOf(layer) ==
    IF layer.mediaType = MediaTar THEN tarFile
    ELSE IF layer.mediaType = MediaZip THEN zipFile
    ELSE [path |-> "", size |-> 0]

\* fsHelper.readFileContents(path)
FileContents(path) == "contents of " \o path

\* the body of the blob PUT
BlobData(file) == IF file.size = 0 THEN "" ELSE FileContents(file.path)

HeadRequest(i, b64) ==
    Req("HEAD", <<checkBlobEndpoint, manifest.layers[i].digest>>, b64, "", i)

PostRequest(i, b64) ==
    Req("POST", <<uploadBlobEndpoint>>, b64, Stringify(manifest.layers[i]), i)

\* a variant that sends every blob to the first upload location
PutBlobRequestOneLocation(i, b64, location) ==
    Req("PUT", <<"/v2/test-org/test-repo/blobs/uploads/u1", "?digest=",
                 manifest.layers[i].digest>>, b64,
        BlobData(FileOf(manifest.layers[i])), i)

\* a variant in which the tasks share a counter of the requests sent so far
\* and put its value into the address of the blob PUT
PutBlobRequestCounting(i, b64, location) ==
    Req("PUT", <<location, "?digest=", manifest.layers[i].digest,
                 ToString(BagCardinality(requests))>>, b64,
        BlobData(FileOf(manifest.layers[i])), i)

PutBlobRequest(i, b64, location) ==
    Req("PUT", <<location, "?digest=", manifest.layers[i].digest>>, b64,
        BlobData(FileOf(manifest.layers[i])), i)

\* a variant that sends the manifest with its layers in reverse order
PutManifestRequestReversed(b64) ==
    Req("PUT", <<manifestEndpoint>>, b64,
        Stringify([manifest EXCEPT !.layers =
            [i \in DOMAIN manifest.layers |->
                manifest.layers[Len(manifest.layers) + 1 - i]]]), 0)

PutManifestRequest(b64) ==
    Req("PUT", <<manifestEndpoint>>, b64, Stringify(manifest), 0)

(***************************************************************************)
(* uploadLayer: what the task does with each answer.                       *)
(***************************************************************************)
Task(pc, headResp, postResp, putResp, err) ==
    [pc |-> pc, headResp |-> headResp, postResp |-> postResp,
     putResp |-> putResp, err |-> err]

\* a variant that treats only 200 as "the blob exists"
HeadOutcomeOnly200(status) ==
    IF status = 200 THEN "exists"
    ELSE IF status >= 500 THEN "error"
    ELSE "missing"

\* lines 107-119: the existence check
HeadOutcome(status) ==
    IF status = 200 \/ status = 202 THEN "exists"
    ELSE IF status # 404 THEN "error"
    ELSE "missing"

HeadError(layer, resp) ==
    Err("Unexpected response from blob check for layer", resp.status,
        {layer.digest, resp.statusText})

\* a variant that does not look for the location header
PostOutcomeStatusOnly(resp) ==
    IF resp.status # 202 THEN "error" ELSE "ok"

\* lines 132-146: the answer to the upload initiation
PostOutcome(resp) ==
    IF resp.status # 202 THEN "error"
    ELSE IF resp.location = Undefined THEN "nolocation"
    ELSE "ok"

PostError(layer, resp) ==
    IF resp.status # 202
    THEN Err("Unexpected response from POST upload", resp.status, {})
    ELSE Err("No location header in response from upload post", 0,
             {uploadBlobEndpoint, layer.digest})

\* lines 171-175
PutBlobError(layer, resp) ==
    Err("Unexpected response from PUT upload", resp.status, {layer.digest})

\* lines 195-199
PutManifestError(resp) ==
    Err("Unexpected response from PUT manifest", resp.status, {})

\* line 76
MediaTypeError(layer) == Err("Unknown media type", 0, {layer.mediaType})

(***************************************************************************)
(* publishOCIArtifact.                                                     *)
(***************************************************************************)
Pub(pc, err, url) == [pc |-> pc, err |-> err, url |-> url]

\* a variant that waits for every task to settle and ignores rejections
\* (Promise.allSettled)
PromiseAllSettled(ts, e) ==
    IF \A i \in DOMAIN ts : ts[i].pc \in {"done", "failed"} THEN "resolved"
    ELSE "pending"

\* a variant that loses the rejection of a task
PromiseAllLosing(ts, e) ==
    IF \A i \in DOMAIN ts : ts[i].pc = "done" THEN "resolved"
    ELSE "pending"

\* Promise.all(layerUploads), seen when a task settles with error e (NoErr
\* when it did not fail): "rejected", "resolved" or still "pending"
PromiseAll(ts, e) ==
    IF e # NoErr THEN "rejected"
    ELSE IF \A i \in DOMAIN ts : ts[i].pc = "done" THEN "resolved"
    ELSE "pending"

\* lines 80-82: the continuation of publishOCIArtifact after a task settles
Continue(p, ts, e) ==
    IF p.pc # "layers" THEN p
    ELSE IF PromiseAll(ts, e) = "rejected" THEN Pub("rejected", e, "")
    ELSE IF PromiseAll(ts, e) = "resolved" THEN Pub("manifest", NoErr, "")
    ELSE p

\* the requests sent by a step that takes the publish from p to q
ManifestSent(p, q, b64) ==
    IF p.pc # "manifest" /\ q.pc = "manifest"
    THEN SetToBag({PutManifestRequest(b64)})
    ELSE EmptyBag

\* a variant that sends the token as it is
RawToken(t) == t

\* line 27
EncodeToken(t) == Base64(t)

\* line 84
PackageURL == repository \o ":" \o semverArg

(***************************************************************************)
(* The environment of run.  A tag and a ref are their text together with   *)
(* the characters, or the path segments, of that text.                     *)
(***************************************************************************)
Tag(text, chars) == [text |-> text, chars |-> chars]

Tags ==
    {Tag("v1.2.3", <<"v", "1", ".", "2", ".", "3">>),
     Tag("1.2.3", <<"1", ".", "2", ".", "3">>),
     Tag("test", <<"t", "e", "s", "t">>),
     Tag("v1.0", <<"v", "1", ".", "0">>),
     Tag("chicken", <<"c", "h", "i", "c", "k", "e", "n">>),
     Tag("111111", <<"1", "1", "1", "1", "1", "1">>)}

Ref(text, parts) == [text |-> text, parts |-> parts]

\* the ref of a release of tag t, and a branch ref
RefsOf(t) ==
    {Ref("refs/tags/" \o t.text, <<"refs", "tags", t.text>>),
     Ref("refs/heads/main", <<"refs", "heads", "main">>)}

\* GITHUB_REPOSITORY, the event, the tag of the release, and what run never
\* reads: the ref, the enterprise flag, whether the tag's commit is checked out
Envs ==
    UNION {{[repository |-> r, eventName |-> e, tag |-> t, ref |-> f,
             isEnterprise |-> ent, checkedOut |-> co] :
               r \in {"", repository}, e \in {"release", "push"},
               f \in RefsOf(t), ent \in BOOLEAN, co \in BOOLEAN} : t \in Tags}

NoEnv ==
    [repository |-> "", eventName |-> "", tag |-> Tag("", <<>>),
     ref |-> Ref("", <<>>), isEnterprise |-> FALSE, checkedOut |-> FALSE]

\* What is thrown: an Error with a message, or a value that is not an Error
\* (a thrown string).
Thrown(isError, err) == [isError |-> isError, err |-> err]

NoThrown == Thrown(FALSE, NoErr)

\* The registry: the digests of the blobs it holds, which publish is under
\* way (1 or 2), and the digests it stored during the first one.
Registry(blobs, attempt, first) ==
    [blobs |-> blobs, attempt |-> attempt, first |-> first]

\* the registry's content is not part of the behaviour
NoReg == Registry({}, 0, {})

\* the registry's answers are not fixed beforehand
NoAnswers == [layer |-> <<>>, manifest |-> NoResp]

\* getConsolidatedDirectory has not returned
NoConsolidated == [path |-> "", needToCleanUpDir |-> FALSE]

\* run is not part of the behaviour: publishOCIArtifact is called alone
NoRun ==
    /\ env = NoEnv
    /\ rpc = "none"
    /\ stages = <<>>
    /\ tmpDirs = <<>>
    /\ dirs = {}
    /\ failures = <<>>
    /\ outputs = <<>>
    /\ caught = NoThrown
    /\ escaped = NoErr
    /\ manifestHash = ""
    /\ consolidated = NoConsolidated
    /\ removeCalls = <<>>

(***************************************************************************)
(* The state before publishOCIArtifact is called: its arguments chosen.    *)
(***************************************************************************)
Init ==
    /\ token \in Tokens
    /\ manifest \in Manifests
    /\ semverArg \in {semver, NoTag}
    /\ b64Token = <<>>
    /\ pub = Pub("init", NoErr, "")
    /\ tasks = <<>>
    /\ requests = EmptyBag
    /\ manifestResp = NoResp
    /\ NoRun
    /\ builds = <<>>
    /\ reg = NoReg
    /\ answers = NoAnswers

\* lines 27-82, up to the first await: the token is encoded, then the map
\* over manifest.layers calls uploadLayer for each layer in turn, and each
\* call runs to its first await, handing its HEAD to the HTTP client; an
\* unknown media type throws out of the map.
Start ==
    /\ pub.pc = "init"
    /\ LET b64     == EncodeToken(token)
           layers  == manifest.layers
           bad     == {i \in DOMAIN layers :
                          layers[i].mediaType \notin KnownMediaTypes}
           started == IF bad = {} THEN DOMAIN layers
                      ELSE 1..(MinOf(bad) - 1)
           ts      == [i \in DOMAIN layers |->
                          IF i \in started
                          THEN Task("head", NoResp, NoResp, NoResp, NoErr)
                          ELSE Task("idle", NoResp, NoResp, NoResp, NoErr)]
           q       == IF bad # {}
                      THEN Pub("rejected", MediaTypeError(layers[MinOf(bad)]), "")
                      ELSE Continue(Pub("layers", NoErr, ""), ts, NoErr)
       IN  /\ b64Token' = b64
           /\ tasks' = ts
           /\ pub' = q
           /\ requests' = requests
                 (+) SetToBag({HeadRequest(i, b64) : i \in started})
                 (+) ManifestSent(pub, q, b64)
    /\ UNCHANGED <<token, manifest, semverArg, manifestResp>>

\* lines 95-123: the answer to the existence check of layer i
HeadResponse(i) ==
    /\ tasks[i].pc = "head"
    /\ \E r \in HeadResponses :
        LET layer   == manifest.layers[i]
            outcome == HeadOutcome(r.status)
            t  == IF outcome = "exists"
                  THEN Task("done", r, NoResp, NoResp, NoErr)
                  ELSE IF outcome = "error"
                  THEN Task("failed", r, NoResp, NoResp, HeadError(layer, r))
                  ELSE Task("post", r, NoResp, NoResp, NoErr)
            ts == [tasks EXCEPT ![i] = t]
            q  == Continue(pub, ts, t.err)
        IN  /\ tasks' = ts
            /\ pub' = q
            /\ requests' = requests
                  (+) (IF t.pc = "post"
                       THEN SetToBag({PostRequest(i, b64Token)})
                       ELSE EmptyBag)
                  (+) ManifestSent(pub, q, b64Token)
    /\ UNCHANGED <<token, manifest, semverArg, b64Token, manifestResp>>

\* lines 123-169: the answer to the upload initiation of layer i; the file
\* is read (readFileContents may throw) and the blob PUT is sent
PostResponse(i) ==
    /\ tasks[i].pc = "post"
    /\ \E r \in PostResponses, readOk \in BOOLEAN :
        LET layer   == manifest.layers[i]
            outcome == PostOutcome(r)
            old == tasks[i]
            t  == IF outcome # "ok"
                  THEN Task("failed", old.headResp, r, NoResp, PostError(layer, r))
                  ELSE IF FileOf(layer).size # 0 /\ ~readOk
                  THEN Task("failed", old.headResp, r, NoResp, ReadError)
                  ELSE Task("put", old.headResp, r, NoResp, NoErr)
            ts == [tasks EXCEPT ![i] = t]
            q  == Continue(pub, ts, t.err)
        IN  /\ tasks' = ts
            /\ pub' = q
            /\ requests' = requests
                  (+) (IF t.pc = "put"
                       THEN SetToBag({PutBlobRequest(i, b64Token, r.location)})
                       ELSE EmptyBag)
                  (+) ManifestSent(pub, q, b64Token)
    /\ UNCHANGED <<token, manifest, semverArg, b64Token, manifestResp>>

\* lines 159-176: the answer to the blob PUT of layer i
PutBlobResponse(i) ==
    /\ tasks[i].pc = "put"
    /\ \E r \in PutBlobResponses :
        LET layer == manifest.layers[i]
            old == tasks[i]
            t  == IF r.status # 201
                  THEN Task("failed", old.headResp, old.postResp, r,
                            PutBlobError(layer, r))
                  ELSE Task("done", old.headResp, old.postResp, r, NoErr)
            ts == [tasks EXCEPT ![i] = t]
            q  == Continue(pub, ts, t.err)
        IN  /\ tasks' = ts
            /\ pub' = q
            /\ requests' = requests (+) ManifestSent(pub, q, b64Token)
    /\ UNCHANGED <<token, manifest, semverArg, b64Token, manifestResp>>

\* a variant that also rejects when the digest the registry returns is not
\* the digest of the manifest sent
PutManifestResponseVerifying ==
    /\ pub.pc = "manifest"
    /\ \E r \in PutManifestResponses(manifest) :
        /\ manifestResp' = r
        /\ pub' = IF r.status # 201
                  THEN Pub("rejected", PutManifestError(r), "")
                  ELSE IF r.digest # ManifestDigest(manifest)
                  THEN Pub("rejected", Err("Digest mismatch", 0, {r.digest}), "")
                  ELSE Pub("resolved", NoErr, PackageURL)
    /\ UNCHANGED <<token, manifest, semverArg, b64Token, tasks, requests>>

\* lines 185-200 and 84: the answer to the manifest PUT
PutManifestResponse ==
    /\ pub.pc = "manifest"
    /\ \E r \in PutManifestResponses(manifest) :
        /\ manifestResp' = r
        /\ pub' = IF r.status # 201
                  THEN Pub("rejected", PutManifestError(r), "")
                  ELSE Pub("resolved", NoErr, PackageURL)
    /\ UNCHANGED <<token, manifest, semverArg, b64Token, tasks, requests>>

\* what the registry holds under the manifests endpoint after the publish,
\* starting from none: a manifest PUT answered 201 Created has stored the
\* body sent under the tag of the endpoint
RegistryManifests ==
    IF manifestResp.status = 201
    THEN {[tag |-> semverArg, manifest |-> Stringify(manifest)]}
    ELSE {}

Next ==
    \/ Start /\ UNCHANGED <<rvars, dvars>>
    \/ \E i \in DOMAIN tasks : HeadResponse(i) /\ UNCHANGED <<rvars, dvars>>
    \/ \E i \in DOMAIN tasks : PostResponse(i) /\ UNCHANGED <<rvars, dvars>>
    \/ \E i \in DOMAIN tasks : PutBlobResponse(i) /\ UNCHANGED <<rvars, dvars>>
    \/ PutManifestResponse /\ UNCHANGED <<rvars, dvars>>

Spec == Init /\ [][Next]_vars

(***************************************************************************)
(* run (lines 228-328).                                                    *)
(***************************************************************************)
\* the messages of run
RepositoryMissing == Err("Could not find Repository.", 0, {})

NotRelease ==
    Err("Please ensure you have the workflow trigger as release.", 0, {})

InvalidSemver(tag) ==
    Err(" is not a valid semantic version, and so cannot be uploaded as an Immutable Action.",
        0, {tag.text})

NotActionRepo ==
    Err("action.y(a)ml not found. Action packages can be created only for action repositories.",
        0, {})

FetchFailed(statusText) == Err("Failed to fetch status page: ", 0, {statusText})

SomethingWentWrong == Err("Something went wrong", 0, {})

RemoveError(dir) == Err("failed to remove a directory", 0, {dir})

Throwables == {Thrown(TRUE, SomethingWentWrong), Thrown(FALSE, SomethingWentWrong)}

\* line 249: releaseTag.replace(/^v/, '')
StripV(chars) ==
    IF Len(chars) > 0 /\ chars[1] = "v" THEN Tail(chars) ELSE chars

Digits == {"0", "1", "2", "3", "4", "5", "6", "7", "8", "9"}

\* a numeric identifier: digits, without a leading zero unless it is "0"
NumericId(chars) ==
    /\ Len(chars) > 0
    /\ \A i \in DOMAIN chars : chars[i] \in Digits
    /\ Len(chars) > 1 => chars[1] # "0"

\* a variant that asks for MAJOR.MINOR only
SemverValidTwoParts(chars) ==
    LET c    == StripV(chars)
        dots == {i \in DOMAIN c : c[i] = "."}
    IN  /\ Cardinality(dots) >= 1
        /\ LET d1 == MinOf(dots)
           IN  /\ NumericId(SubSeq(c, 1, d1 - 1))
               /\ \A i \in (d1 + 1)..Len(c) : c[i] \in Digits \cup {"."}
               /\ d1 < Len(c)

\* line 249: semver.parse(version) is not null.  The strict grammar of the
\* semver package: an optional "v", then MAJOR.MINOR.PATCH, three numeric
\* identifiers (the tags here carry no prerelease and no build part).
SemverValid(chars) ==
    LET c    == StripV(chars)
        dots == {i \in DOMAIN c : c[i] = "."}
    IN  /\ Cardinality(dots) = 2
        /\ LET d1 == MinOf(dots)
               d2 == MinOf(dots \ {d1})
           IN  /\ NumericId(SubSeq(c, 1, d1 - 1))
               /\ NumericId(SubSeq(c, d1 + 1, d2 - 1))
               /\ NumericId(SubSeq(c, d2 + 1, Len(c)))

\* createActionPackageManifest: the config layer, the tar layer and the zip
\* layer, in that order
ActionPackageManifest ==
    [config |-> [mediaType |-> MediaConfig, size |-> 0, digest |-> EmptySha],
     layers |-> <<Layer(MediaConfig, FALSE), Layer(MediaTar, FALSE),
                  Layer(MediaZip, FALSE)>>]

\* before line 278 there is no manifest
NoManifest ==
    [config |-> [mediaType |-> MediaConfig, size |-> 0, digest |-> EmptySha],
     layers |-> <<>>]

\* lines 292-294: the request for the registry's URL
RegistryURLRequest ==
    [method |-> "GET", url |-> <<"/packages/container-registry-url">>,
     auth |-> <<>>, body |-> "", layer |-> -1]

Output(name, value) == [name |-> name, value |-> value]

\* a variant that leaves the digest of the manifest out
PackageOutputsNoSha(url, m) ==
    <<Output("package-url", url), Output("package-manifest", Stringify(m))>>

\* lines 314-316
PackageOutputs(url, m) ==
    <<Output("package-url", url),
      Output("package-manifest", Stringify(m)),
      Output("package-manifest-sha", manifestHash)>>

\* a variant that sets the outputs however the publish settled
EmittedAlways(p, m) == PackageOutputs(PackageURL, m)

\* lines 302-316: the outputs set once the awaited publish has settled as p;
\* a rejection throws at line 302, past lines 314-316
Emitted(p, m) ==
    IF p.pc = "resolved" THEN PackageOutputs(p.url, m) ELSE <<>>

\* the directory of the action's sources, given as the parameter of run
pathInput == "source"

\* line 259: getConsolidatedDirectory returns a staging directory it has made
\* and needToCleanUpDir, or the directory of the sources as it is
ConsolidatedDirectory(needToCleanUpDir) ==
    [path |-> IF needToCleanUpDir THEN "staging" ELSE pathInput,
     needToCleanUpDir |-> needToCleanUpDir]

\* a variant that tracks the consolidated directory whoever made it
TrackConsolidatedAlways(tds, c) == Append(tds, c.path)

\* lines 261-263
TrackConsolidated(tds, c) ==
    IF c.needToCleanUpDir THEN Append(tds, c.path) ELSE tds

\* lines 317-319: if (error instanceof Error) core.setFailed(error.message)
Catch(thrown, fs) ==
    IF thrown.isError THEN Append(fs, thrown.err) ELSE fs

\* lines 320-327: the loop over tmpDirs calls removeDir for every path that
\* is not ''; removeDir may throw, which ends the loop and leaves run.  The
\* results, for tracked directories tds and existing directories ds: k is
\* the index whose removal throws, 0 when none does.
CleanupResults(tds, ds) ==
    {[dirs    |-> ds \ {tds[j] : j \in {i \in DOMAIN tds :
                                          tds[i] # "" /\ (k = 0 \/ i < k)}},
      calls   |-> SelectSeq(SubSeq(tds, 1, IF k = 0 THEN Len(tds) ELSE k),
                            LAMBDA p : p # ""),
      escaped |-> IF k = 0 THEN NoErr ELSE RemoveError(tds[k])] :
        k \in {0} \cup {i \in DOMAIN tds : tds[i] # ""}}

\* lines 320-327: run leaves its try block and the finally clause runs
Finally(fs, outs, stgs, tds, ds) ==
    /\ failures' = fs
    /\ outputs' = outs
    /\ stages' = Append(stgs, "Cleanup")
    /\ tmpDirs' = tds
    /\ \E c \in CleanupResults(tds, ds) :
        /\ dirs' = c.dirs
        /\ removeCalls' = removeCalls \o c.calls
        /\ escaped' = c.escaped
    /\ rpc' = "done"
    /\ env' = env
    /\ manifestHash' = manifestHash

\* run leaves its try block by a return or by the end of the block
Return(fs, outs, stgs, tds, ds) ==
    /\ caught' = caught
    /\ consolidated' = consolidated
    /\ Finally(fs, outs, stgs, tds, ds)

\* lines 317-327: th is thrown in the try block
Throw(th, stgs, tds, ds) ==
    /\ caught' = th
    /\ consolidated' = consolidated
    /\ Finally(Catch(th, failures), outputs, stgs, tds, ds)

\* lines 302-319: what run does when a step has taken the publish to pub';
\* stgs is the stage log after that step
PublishSettles(stgs) ==
    IF pub'.pc = "resolved" THEN
        Return(failures, outputs \o Emitted(pub', manifest'),
               Append(stgs, "EmitOutputs"), tmpDirs, dirs)
    ELSE IF pub'.pc = "rejected" THEN
        /\ caught' = Thrown(TRUE, pub'.err)
        /\ consolidated' = consolidated
        /\ Finally(Catch(Thrown(TRUE, pub'.err), failures),
                   outputs \o Emitted(pub', manifest'), stgs, tmpDirs, dirs)
    ELSE /\ rpc' = "publish"
         /\ stages' = stgs
         /\ UNCHANGED <<env, tmpDirs, dirs, failures, outputs, caught, escaped,
                       manifestHash, consolidated, removeCalls>>

\* a variant in which run reacts to the publish whenever a task makes a step
RunContinueAlways == PublishSettles(stages)

\* a step of the publish, seen from run
RunContinue ==
    IF rpc = "publish" THEN PublishSettles(stages) ELSE UNCHANGED rvars

(***************************************************************************)
(* The state when run is called: the environment chosen.                   *)
(***************************************************************************)
InitRun ==
    /\ token = <<116, 101, 115>>
    /\ manifest = NoManifest
    /\ semverArg = semver
    /\ b64Token = <<>>
    /\ pub = Pub("init", NoErr, "")
    /\ tasks = <<>>
    /\ requests = EmptyBag
    /\ manifestResp = NoResp
    /\ env \in Envs
    /\ rpc = "start"
    /\ stages = <<>>
    /\ tmpDirs = <<>>
    /\ dirs = {}
    /\ failures = <<>>
    /\ outputs = <<>>
    /\ caught = NoThrown
    /\ escaped = NoErr
    /\ manifestHash = ""
    /\ consolidated = NoConsolidated
    /\ removeCalls = <<>>
    /\ builds = <<>>
    /\ reg = NoReg
    /\ answers = NoAnswers

\* lines 233-255: the repository, the event and the tag are validated
Validate ==
    /\ rpc = "start"
    /\ LET stgs == Append(stages, "ValidateRef")
       IN  IF env.repository = "" THEN
               Return(Append(failures, RepositoryMissing), outputs, stgs,
                      tmpDirs, dirs)
           ELSE IF env.eventName # "release" THEN
               Return(Append(failures, NotRelease), outputs, stgs,
                      tmpDirs, dirs)
           ELSE IF ~SemverValid(StripV(env.tag.chars)) THEN
               Return(Append(failures, InvalidSemver(env.tag)), outputs, stgs,
                      tmpDirs, dirs)
           ELSE /\ rpc' = "stage"
                /\ stages' = stgs
                /\ UNCHANGED <<env, tmpDirs, dirs, failures, outputs, caught, escaped,
                       manifestHash, consolidated, removeCalls>>
    /\ UNCHANGED pvars

\* lines 257-270: getConsolidatedDirectory returns the directory of the
\* action, a new temp directory when it had to consolidate (needToCleanUpDir),
\* or throws, with or without having created that directory; isActionRepo
\* looks for action.yml
StageFiles ==
    /\ rpc = "stage"
    /\ LET stgs == Append(stages, "Stage")
       IN  \/ \E th \in Throwables, created \in BOOLEAN :
                   Throw(th, stgs, tmpDirs,
                         IF created THEN dirs \cup {"staging"} ELSE dirs)
           \/ \E needToCleanUpDir \in BOOLEAN, isActionRepo \in BOOLEAN :
               LET c   == ConsolidatedDirectory(needToCleanUpDir)
                   tds == TrackConsolidated(tmpDirs, c)
                   ds  == IF needToCleanUpDir
                          THEN dirs \cup {c.path} ELSE dirs
               IN  /\ consolidated' = c
                   /\ IF ~isActionRepo THEN
                          /\ caught' = caught
                          /\ Finally(Append(failures, NotActionRepo), outputs,
                                     stgs, tds, ds)
                      ELSE /\ rpc' = "tempdir"
                           /\ stages' = stgs
                           /\ tmpDirs' = tds
                           /\ dirs' = ds
                           /\ UNCHANGED <<env, failures, outputs, caught,
                                          escaped, manifestHash, removeCalls>>
    /\ UNCHANGED pvars

\* lines 273-276, up to the await: createTempDir makes the archive directory
\* or throws; createArchives is called
CreateTempDir ==
    /\ rpc = "tempdir"
    /\ LET stgs == Append(stages, "Archive")
       IN  \/ \E th \in Throwables :
                   Throw(th, stgs, tmpDirs, dirs)
           \/ /\ rpc' = "archives"
              /\ stages' = stgs
              /\ tmpDirs' = Append(tmpDirs, "archive")
              /\ dirs' = dirs \cup {"archive"}
              /\ UNCHANGED <<env, failures, outputs, caught, escaped,
                             manifestHash, consolidated, removeCalls>>
    /\ UNCHANGED pvars

\* lines 276-294: createArchives settles; when it resolved the manifest is
\* built and hashed and the registry's URL is asked for
ArchivesSettled ==
    /\ rpc = "archives"
    /\ \/ /\ \E th \in Throwables :
                 Throw(th, stages, tmpDirs, dirs)
          /\ UNCHANGED pvars
       \/ /\ rpc' = "fetch"
          /\ stages' = Append(stages, "BuildManifest")
          /\ manifest' = ActionPackageManifest
          /\ manifestHash' = ManifestDigest(ActionPackageManifest)
          /\ requests' = requests (+) SetToBag({RegistryURLRequest})
          /\ UNCHANGED <<env, tmpDirs, dirs, failures, outputs, caught, escaped,
                         consolidated, removeCalls>>
          /\ UNCHANGED <<token, semverArg, b64Token, pub, tasks, manifestResp>>

\* lines 292-312: the answer to the request for the registry's URL; when it
\* is ok publishOCIArtifact is called and runs to its first await
RegistryURLResponse ==
    /\ rpc = "fetch"
    /\ \/ /\ Throw(Thrown(TRUE, FetchFailed("Not Found")), stages, tmpDirs, dirs)
          /\ UNCHANGED pvars
       \/ /\ Start
          /\ PublishSettles(Append(stages, "Publish"))

NextRun ==
    \/ Validate /\ UNCHANGED dvars
    \/ StageFiles /\ UNCHANGED dvars
    \/ CreateTempDir /\ UNCHANGED dvars
    \/ ArchivesSettled /\ UNCHANGED dvars
    \/ RegistryURLResponse /\ UNCHANGED dvars
    \/ \E i \in DOMAIN tasks : HeadResponse(i) /\ RunContinue /\ UNCHANGED dvars
    \/ \E i \in DOMAIN tasks : PostResponse(i) /\ RunContinue /\ UNCHANGED dvars
    \/ \E i \in DOMAIN tasks : PutBlobResponse(i) /\ RunContinue /\ UNCHANGED dvars
    \/ PutManifestResponse /\ RunContinue /\ UNCHANGED dvars

SpecRun == InitRun /\ [][NextRun]_vars

(***************************************************************************)
(* The manifest and its digest (lines 278-290).  A JavaScript object is    *)
(* the sequence of its fields, <<key, value>>, in insertion order, which   *)
(* is the order JSON.stringify writes them in.                             *)
(***************************************************************************)
MaxBuilds == 2

Field(key, value) == <<key, value>>

\* FileMetadata of an archive, with its digest
Archive(path, size, sha256) == [path |-> path, size |-> size, sha256 |-> sha256]

\* the arguments of createActionPackageManifest
BuildInputs ==
    [tarFile    : {Archive(tarFile.path, tarFile.size, "1234567890"),
                   Archive(tarFile.path, tarFile.size, "c0ffee")},
     zipFile    : {Archive(zipFile.path, zipFile.size, "abcdef")},
     repository : {repository},
     version    : {semver, "1.2.4"},
     created    : {"2021-01-01T00:00:00.000Z", "2021-01-02T00:00:00.000Z"}]

\* a layer descriptor of the manifest
LayerObject(mediaType, size, digest, title) ==
    <<Field("mediaType", mediaType), Field("size", size),
      Field("digest", digest),
      Field("annotations", <<Field("org.opencontainers.image.title", title)>>)>>

\* createActionPackageManifest(tarFile, zipFile, repository, version, created)
CreateActionPackageManifest(tar, zip, repo, version, created) ==
    LET config == LayerObject(MediaConfig, 0, EmptySha, "config.json")
    IN  <<Field("schemaVersion", 2),
          Field("mediaType", "application/vnd.oci.image.manifest.v1+json"),
          Field("artifactType", "application/vnd.oci.image.manifest.v1+json"),
          Field("config", config),
          Field("layers",
                <<config,
                  LayerObject(MediaTar, tar.size, "sha256:" \o tar.sha256, tar.path),
                  LayerObject(MediaZip, zip.size, "sha256:" \o zip.sha256, zip.path)>>),
          Field("annotations",
                <<Field("org.opencontainers.image.created", created),
                  Field("action.tar.gz.digest", tar.sha256),
                  Field("action.zip.digest", zip.sha256),
                  Field("com.github.package.type", "actions_oci_pkg")>>)>>

\* a variant that salts the hash with the number of manifests built so far
ManifestHashSalted(m) == ManifestDigest(<<m, Len(builds)>>)

\* lines 286-290, with the prefix of line 316
ManifestHash(m) == ManifestDigest(m)

InitDigest ==
    /\ token = <<116, 101, 115>>
    /\ manifest = NoManifest
    /\ semverArg = semver
    /\ b64Token = <<>>
    /\ pub = Pub("init", NoErr, "")
    /\ tasks = <<>>
    /\ requests = EmptyBag
    /\ manifestResp = NoResp
    /\ NoRun
    /\ builds = <<>>
    /\ reg = NoReg
    /\ answers = NoAnswers

\* lines 278-284: a manifest is built from its inputs
CreateManifest ==
    /\ Len(builds) < MaxBuilds
    /\ \A i \in DOMAIN builds : builds[i].digest # ""
    /\ \E inp \in BuildInputs :
        builds' = Append(builds,
            [inputs   |-> inp,
             manifest |-> CreateActionPackageManifest(
                              inp.tarFile, inp.zipFile, inp.repository,
                              inp.version, inp.created),
             digest   |-> ""])
    /\ UNCHANGED <<pvars, rvars, reg, answers>>

\* lines 286-290: the manifest built last is hashed
HashManifest ==
    /\ builds # <<>>
    /\ builds[Len(builds)].digest = ""
    /\ builds' = [builds EXCEPT ![Len(builds)].digest =
                      ManifestHash(builds[Len(builds)].manifest)]
    /\ UNCHANGED <<pvars, rvars, reg, answers>>

NextDigest ==
    \/ CreateManifest
    \/ HashManifest

SpecDigest == InitDigest /\ [][NextDigest]_vars

(***************************************************************************)
(* Two publishes of the same inputs, one after the other, against a        *)
(* registry that answers the existence check by what it holds: 200 or 202  *)
(* for a blob it holds, 404 or an error for one it does not, and that      *)
(* holds a blob from the moment it answers that blob's PUT with 201.       *)
(***************************************************************************)
\* the manifests published twice: the archives, with equal or different digests
RerunManifests ==
    {m \in Manifests :
        /\ m.config.digest = EmptySha
        /\ \A i \in DOMAIN m.layers : m.layers[i].mediaType \in KnownMediaTypes
        /\ Len(m.layers) >= 2}

InitRerun ==
    /\ token = <<116, 101, 115>>
    /\ manifest \in RerunManifests
    /\ semverArg = semver
    /\ b64Token = <<>>
    /\ pub = Pub("init", NoErr, "")
    /\ tasks = <<>>
    /\ requests = EmptyBag
    /\ manifestResp = NoResp
    /\ NoRun
    /\ builds = <<>>
    /\ reg = Registry({}, 1, {})
    /\ answers = NoAnswers

\* the existence check of layer i is answered by what the registry holds
HeadAnswered(i) ==
    /\ HeadResponse(i)
    /\ tasks'[i].headResp.status \in {200, 202}
           <=> manifest.layers[i].digest \in reg.blobs
    /\ UNCHANGED reg

\* the registry holds the blob of layer i once it has answered its PUT with 201
BlobStored(i) ==
    /\ PutBlobResponse(i)
    /\ reg' = IF tasks'[i].putResp.status # 201 THEN reg
              ELSE Registry(reg.blobs \cup {manifest.layers[i].digest},
                            reg.attempt,
                            IF reg.attempt = 1
                            THEN reg.first \cup {manifest.layers[i].digest}
                            ELSE reg.first)

\* the first publish has settled and every request of it has been answered:
\* publishOCIArtifact is called again with the same arguments
Rerun ==
    /\ reg.attempt = 1
    /\ pub.pc \in {"resolved", "rejected"}
    /\ \A i \in DOMAIN tasks : tasks[i].pc \in {"idle", "done", "failed"}
    /\ reg' = Registry(reg.blobs, 2, reg.first)
    /\ b64Token' = <<>>
    /\ pub' = Pub("init", NoErr, "")
    /\ tasks' = <<>>
    /\ requests' = EmptyBag
    /\ manifestResp' = NoResp
    /\ UNCHANGED <<token, manifest, semverArg>>

NextRerun ==
    \/ Start /\ UNCHANGED <<rvars, dvars>>
    \/ \E i \in DOMAIN tasks : HeadAnswered(i) /\ UNCHANGED <<rvars, builds, answers>>
    \/ \E i \in DOMAIN tasks : PostResponse(i) /\ UNCHANGED <<rvars, dvars>>
    \/ \E i \in DOMAIN tasks : BlobStored(i) /\ UNCHANGED <<rvars, builds, answers>>
    \/ PutManifestResponse /\ UNCHANGED <<rvars, dvars>>
    \/ Rerun /\ UNCHANGED <<rvars, builds, answers>>

SpecRerun == InitRerun /\ [][NextRerun]_vars

(***************************************************************************)
(* SpecLive: one call of publishOCIArtifact, made and not merely possible, *)
(* against a registry that answers every request it is sent: the call and  *)
(* each kind of answer are weakly fair.                                    *)
(***************************************************************************)
InitLive ==
    /\ Init
    /\ token = <<116, 101, 115>>
    /\ semverArg = semver

Answered ==
    /\ WF_vars((\E i \in DOMAIN tasks : HeadResponse(i))
                    /\ UNCHANGED <<rvars, dvars>>)
    /\ WF_vars((\E i \in DOMAIN tasks : PostResponse(i))
                    /\ UNCHANGED <<rvars, dvars>>)
    /\ WF_vars((\E i \in DOMAIN tasks : PutBlobResponse(i))
                    /\ UNCHANGED <<rvars, dvars>>)
    /\ WF_vars(PutManifestResponse /\ UNCHANGED <<rvars, dvars>>)

SpecLive ==
    /\ InitLive
    /\ [][Next]_vars
    /\ WF_vars(Start /\ UNCHANGED <<rvars, dvars>>)
    /\ Answered

(***************************************************************************)
(* SpecFixed: one call of publishOCIArtifact against a registry whose      *)
(* answers are fixed beforehand, one per layer digest and one for the      *)
(* manifest, and let no layer fail; only the order in which the answers    *)
(* arrive is left open.                                                    *)
(***************************************************************************)
FixedManifests ==
    {m \in Manifests :
        /\ m.config.digest = EmptySha
        /\ \A i \in DOMAIN m.layers : m.layers[i].mediaType \in KnownMediaTypes}

DigestsOf(m) == {m.layers[i].digest : i \in DOMAIN m.layers}

\* the answers to the requests about one blob that let its layer pass
LayerAnswers ==
    [head : {r \in HeadResponses : r.status \in {200, 202, 404}},
     post : {r \in PostResponses : r.status = 202 /\ r.location # Undefined},
     put  : {r \in PutBlobResponses : r.status = 201}]

InitFixed ==
    /\ token = <<116, 101, 115>>
    /\ manifest \in FixedManifests
    /\ semverArg = semver
    /\ b64Token = <<>>
    /\ pub = Pub("init", NoErr, "")
    /\ tasks = <<>>
    /\ requests = EmptyBag
    /\ manifestResp = NoResp
    /\ NoRun
    /\ builds = <<>>
    /\ reg = NoReg
    /\ \E la \in [DigestsOf(manifest) -> LayerAnswers],
          ma \in PutManifestResponses(manifest) :
            answers = [layer |-> la, manifest |-> ma]

AnswersFor(i) == answers.layer[manifest.layers[i].digest]

HeadFixed(i) ==
    /\ HeadResponse(i)
    /\ tasks'[i].headResp = AnswersFor(i).head

\* the upload initiation is answered as fixed, and the file is read
PostFixed(i) ==
    /\ PostResponse(i)
    /\ tasks'[i].postResp = AnswersFor(i).post
    /\ tasks'[i].pc = "put"

PutBlobFixed(i) ==
    /\ PutBlobResponse(i)
    /\ tasks'[i].putResp = AnswersFor(i).put

PutManifestFixed ==
    /\ PutManifestResponse
    /\ manifestResp' = answers.manifest

NextFixed ==
    \/ Start /\ UNCHANGED <<rvars, dvars>>
    \/ \E i \in DOMAIN tasks : HeadFixed(i) /\ UNCHANGED <<rvars, dvars>>
    \/ \E i \in DOMAIN tasks : PostFixed(i) /\ UNCHANGED <<rvars, dvars>>
    \/ \E i \in DOMAIN tasks : PutBlobFixed(i) /\ UNCHANGED <<rvars, dvars>>
    \/ PutManifestFixed /\ UNCHANGED <<rvars, dvars>>

SpecFixed == InitFixed /\ [][NextFixed]_vars

(***************************************************************************)
(* Vocabulary of the properties.                                           *)
(***************************************************************************)
Sent == BagToSet(requests)

ManifestPuts == {r \in Sent : r.layer = 0}

\* the POST and blob PUT requests of layer i
UploadsOf(i) == {r \in Sent : r.layer = i /\ r.method \in {"POST", "PUT"}}

BlobPutsOf(i) == {r \in Sent : r.layer = i /\ r.method = "PUT"}

Layers == DOMAIN manifest.layers

Started == pub.pc # "init"

\* the blob of digest d was reported present by a HEAD or stored by a PUT
Held(d) ==
    \E i \in DOMAIN tasks :
        /\ manifest.layers[i].digest = d
        /\ \/ tasks[i].headResp.status \in {200, 202}
           \/ tasks[i].putResp.status = 201

Referenced ==
    {manifest.layers[i].digest : i \in Layers} \cup {manifest.config.digest}

\* s is a padded base64 text
IsBase64(s) ==
    /\ Len(s) % 4 = 0
    /\ \A k \in DOMAIN s : s[k] \in 0..Pad
    /\ \A k \in DOMAIN s : s[k] = Pad => k > Len(s) - 2
    /\ \A k \in DOMAIN s : (s[k] = Pad /\ k < Len(s)) => s[k + 1] = Pad

RECURSIVE Base64Decode(_)
Base64Decode(s) ==
    IF Len(s) < 4 THEN <<>>
    ELSE (IF s[3] = Pad THEN <<s[1] * 4 + s[2] \div 16>>
          ELSE IF s[4] = Pad
          THEN <<s[1] * 4 + s[2] \div 16, (s[2] % 16) * 16 + s[3] \div 4>>
          ELSE <<s[1] * 4 + s[2] \div 16, (s[2] % 16) * 16 + s[3] \div 4,
                 (s[3] % 4) * 64 + s[4]>>)
         \o Base64Decode(SubSeq(s, 5, Len(s)))

(***************************************************************************)
(* C1.  The manifest PUT is issued only after every layer upload task has  *)
(* completed successfully: whenever a manifest PUT has been handed to the  *)
(* HTTP client, every layer of the manifest has a task, and every task is  *)
(* done; none is outstanding and none has failed.                          *)
(***************************************************************************)
C1_ManifestAfterAllLayers ==
    ManifestPuts # {} =>
        /\ DOMAIN tasks = Layers
        /\ \A i \in Layers : tasks[i].pc = "done"

\* a manifest PUT sent for three layers, one skipped and one uploaded
C1_Witness ==
    /\ ManifestPuts # {}
    /\ Len(manifest.layers) = 3
    /\ \E i, j \in Layers :
        /\ tasks[i].putResp.status = 201
        /\ tasks[j].headResp.status = 200

(***************************************************************************)
(* C2.  Whenever the manifest PUT is issued, every digest referenced by    *)
(* manifest.layers and by manifest.config is a blob the registry holds: a  *)
(* HEAD of the run answered 200 or 202 for it, or a blob PUT of the run    *)
(* was answered 201 for it; also when the config digest is not a layer's.  *)
(***************************************************************************)
C2_ReferencedBlobsHeld ==
    ManifestPuts # {} => \A d \in Referenced : Held(d)

(***************************************************************************)
(* C3.  The publish succeeds only when the docker-content-digest of the    *)
(* manifest PUT's answer equals the digest computed locally from the       *)
(* serialized manifest; a different digest makes the publish fail.         *)
(***************************************************************************)
C3_DigestVerified ==
    pub.pc = "resolved" => manifestResp.digest = ManifestDigest(manifest)

(***************************************************************************)
(* C4.  A layer whose existence check was answered 200 or 202 sends no     *)
(* upload-initiation POST and no blob PUT.                                 *)
(***************************************************************************)
C4_ExistingBlobNotSent ==
    \A i \in DOMAIN tasks :
        tasks[i].headResp.status \in {200, 202} => UploadsOf(i) = {}

\* one layer skipped on a 202 while another layer was uploaded
C4_Witness ==
    \E i, j \in DOMAIN tasks :
        /\ tasks[i].headResp.status = 202
        /\ tasks[i].pc = "done"
        /\ BlobPutsOf(j) # {}
        /\ pub.pc = "resolved"

(***************************************************************************)
(* C5.  If the existence check of a layer is answered with a status other  *)
(* than 200, 202 or 404, the publish fails with an error carrying that     *)
(* status code and the response body, the layer sends no POST and no blob  *)
(* PUT, and no manifest PUT is issued.                                     *)
(***************************************************************************)
C5_HeadFailureReported ==
    \A i \in DOMAIN tasks :
        LET r == tasks[i].headResp IN
        r.status \notin {0, 200, 202, 404} =>
            /\ pub.pc = "rejected"
            /\ pub.err.status = r.status
            /\ r.body.raw \in pub.err.text
            /\ UploadsOf(i) = {}
            /\ ManifestPuts = {}

(***************************************************************************)
(* C6.  If the upload-initiation POST of a layer is answered with a status *)
(* other than 202, or with 202 and no location header, the layer's task    *)
(* fails without sending a blob PUT, and the publish fails: no manifest    *)
(* PUT is issued.                                                          *)
(***************************************************************************)
C6_PostFailureAborts ==
    \A i \in DOMAIN tasks :
        LET r == tasks[i].postResp IN
        (r # NoResp /\ (r.status # 202 \/ r.location = Undefined)) =>
            /\ tasks[i].pc = "failed"
            /\ BlobPutsOf(i) = {}
            /\ pub.pc = "rejected"
            /\ ManifestPuts = {}

\* a 202 without location for one layer after another layer was uploaded
C6_Witness ==
    \E i, j \in DOMAIN tasks :
        /\ tasks[i].postResp.status = 202
        /\ tasks[i].postResp.location = Undefined
        /\ tasks[i].pc = "failed"
        /\ tasks[j].putResp.status = 201

(***************************************************************************)
(* C7.  If the blob PUT of a layer is answered with a status other than    *)
(* 201, the publish fails with an error carrying that status and the       *)
(* response body, and no manifest PUT is issued.                           *)
(***************************************************************************)
C7_PutFailureReported ==
    \A i \in DOMAIN tasks :
        LET r == tasks[i].putResp IN
        r.status \notin {0, 201} =>
            /\ pub.pc = "rejected"
            /\ pub.err.status = r.status
            /\ r.body.raw \in pub.err.text
            /\ ManifestPuts = {}

(***************************************************************************)
(* C8.  If the manifest PUT is answered with a status other than 201, the  *)
(* publish fails, and its error surfaces the code and the message of every *)
(* structured registry error of the response body.                         *)
(***************************************************************************)
C8_ManifestFailureReported ==
    manifestResp.status \notin {0, 201} =>
        /\ pub.pc = "rejected"
        /\ \A e \in manifestResp.body.errors :
              e.code \in pub.err.text /\ e.message \in pub.err.text

(***************************************************************************)
(* C9.  A manifest with a layer of unknown media type is rejected before   *)
(* any request is sent, wherever that layer stands in manifest.layers:     *)
(* once the call has started, it is rejected and nothing was ever sent.    *)
(***************************************************************************)
C9_UnknownMediaTypeSendsNothing ==
    (Started /\ \E i \in Layers :
                    manifest.layers[i].mediaType \notin KnownMediaTypes) =>
        /\ pub.pc = "rejected"
        /\ pub.err.kind = "Unknown media type"
        /\ requests = EmptyBag

(***************************************************************************)
(* C10.  Every request sent (HEAD, POST, blob PUT, manifest PUT) carries   *)
(* Authorization: Bearer <base64(token)>: the credential is well-formed    *)
(* base64 that decodes to the token of the call, and is not the raw token. *)
(***************************************************************************)
C10_BearerBase64Token ==
    \A r \in Sent :
        /\ r.auth[1] = "Bearer"
        /\ r.auth[2] # token
        /\ IsBase64(r.auth[2])
        /\ Base64Decode(r.auth[2]) = token

\* a run that sent each of the four kinds of request
C10_Witness ==
    /\ \E r \in Sent : r.method = "HEAD"
    /\ \E r \in Sent : r.method = "POST"
    /\ \E r \in Sent : r.method = "PUT" /\ r.layer # 0
    /\ \E r \in Sent : r.method = "PUT" /\ r.layer = 0

(***************************************************************************)
(* C11.  A successful publish of n layers, k of them reported present by   *)
(* the existence check, has sent exactly n HEAD, n-k POST, n-k blob PUT    *)
(* and 1 manifest PUT requests, 3n - 2k + 1 in all (4, 8 and 10 for n = 3  *)
(* and k = 3, 1, 0), whatever the interleaving of the layer tasks.         *)
(***************************************************************************)
RECURSIVE Copies(_)
Copies(S) ==
    IF S = {} THEN 0
    ELSE LET r == CHOOSE x \in S : TRUE
         IN  CopiesIn(r, requests) + Copies(S \ {r})

\* the number of requests sent with the given method, for blobs or not
NumSent(method, blob) ==
    Copies({r \in Sent : r.method = method /\ (r.layer # 0) = blob})

Present == {i \in DOMAIN tasks : tasks[i].headResp.status \in {200, 202}}

Executed == SelectSeq(stages, LAMBDA st : st # "Cleanup")

StagesEntered == {stages[i] : i \in DOMAIN stages}

\* the order of the stages; attestation only outside an enterprise
StageOrder(isEnterprise) ==
    <<"ValidateRef", "EnsureCheckedOut", "Stage", "Archive", "BuildManifest",
      "Publish">>
    \o (IF isEnterprise THEN <<>> ELSE <<"Attest", "AttachAttestation">>)
    \o <<"EmitOutputs">>

IsPrefix(s, t) == Len(s) <= Len(t) /\ s = SubSeq(t, 1, Len(s))

Running == rpc \notin {"none", "start"}

Ended == rpc = "done"

\* the run ended and some stage had failed: the publish, the last thing that
\* can fail, did not resolve
Failed == Ended /\ pub.pc # "resolved"

\* some HTTP request has been sent
NetworkUsed == requests # EmptyBag

(***************************************************************************)
(* C12: the stages run in the order ValidateRef, EnsureCheckedOut, Stage,  *)
(* Archive, BuildManifest, Publish, (Attest, AttachAttestation),           *)
(* EmitOutputs, each only after its predecessor; nothing but Cleanup       *)
(* follows a failure, and a failed Publish is followed by no attestation   *)
(* and no output.                                                          *)
(***************************************************************************)
C12_StageOrder ==
    /\ IsPrefix(Executed, StageOrder(env.isEnterprise))
    /\ \A i \in DOMAIN stages : stages[i] = "Cleanup" => i = Len(stages)
    /\ failures # <<>> => "EmitOutputs" \notin StagesEntered
    /\ Running /\ pub.pc = "rejected" =>
           /\ outputs = <<>>
           /\ StagesEntered \cap {"Attest", "AttachAttestation", "EmitOutputs"} = {}

(***************************************************************************)
(* C13: every run ends with Cleanup, and Cleanup removes every tracked     *)
(* temp directory, however the run ended: when run has ended, Cleanup was  *)
(* entered and no tracked directory is left, except one whose own removal  *)
(* failed.                                                                 *)
(***************************************************************************)
C13_CleanupRemovesTracked ==
    Ended =>
        /\ "Cleanup" \in StagesEntered
        /\ \A i \in DOMAIN tmpDirs :
               tmpDirs[i] \in dirs => escaped = RemoveError(tmpDirs[i])

(***************************************************************************)
(* C14: in a run in which a stage fails no output is emitted: no state     *)
(* has both a failure message and an output, and a failed run has no       *)
(* output.                                                                 *)
(***************************************************************************)
C14_NoOutputOnFailure ==
    /\ ~(failures # <<>> /\ outputs # <<>>)
    /\ Failed => outputs = <<>>

\* the publish was rejected, the failure is reported and the run has ended
C14_Witness ==
    /\ Ended
    /\ pub.pc = "rejected"
    /\ failures = <<pub.err>>
    /\ outputs = <<>>

(***************************************************************************)
(* C15: every failing run surfaces exactly one failure message, whichever  *)
(* stage fails and whatever the failing collaborator throws: the failure   *)
(* reporter is never called more than once, and a failed run has called it *)
(* once.                                                                   *)
(***************************************************************************)
C15_ExactlyOneFailureMessage ==
    /\ Len(failures) <= 1
    /\ Failed => Len(failures) = 1

\* the ref has the shape refs/tags/<tag>
IsTagRef(ref) ==
    /\ Len(ref.parts) = 3
    /\ ref.parts[1] = "refs"
    /\ ref.parts[2] = "tags"
    /\ ref.parts[3] # ""

\* the failure message m cites the text t
Cites(m, t) == t \in m.text

(***************************************************************************)
(* C16: a run whose ref is not of the shape refs/tags/<tag> fails with a   *)
(* message citing that ref, before any temp directory is created and       *)
(* before any network call: once such a run has made its first step it has *)
(* ended with one message that cites the ref, no directory was tracked or  *)
(* created, and no request was sent.                                       *)
(***************************************************************************)
C16_NonTagRefRejected ==
    Running /\ ~IsTagRef(env.ref) =>
        /\ Ended
        /\ Len(failures) = 1
        /\ Cites(failures[1], env.ref.text)
        /\ tmpDirs = <<>>
        /\ dirs = {}
        /\ ~NetworkUsed

\* chars is [v]MAJOR.MINOR.PATCH with numeric identifiers: the text splits
\* at two dots into three identifiers
ParsesAsSemver(chars) ==
    \E v \in {0, 1}, a, b \in DOMAIN chars :
        /\ v = 1 => Len(chars) > 0 /\ chars[1] = "v"
        /\ v < a /\ a < b /\ b < Len(chars)
        /\ chars[a] = "." /\ chars[b] = "."
        /\ \A part \in {SubSeq(chars, v + 1, a - 1), SubSeq(chars, a + 1, b - 1),
                        SubSeq(chars, b + 1, Len(chars))} :
               /\ part # <<>>
               /\ \A i \in DOMAIN part : part[i] \in Digits
               /\ Len(part) > 1 => part[1] # "0"

\* the tag, without one leading v, is not a semantic version
InvalidTag == ~ParsesAsSemver(StripV(env.tag.chars))

\* the run has failed on its tag, before the network and before Publish
RejectedForTag ==
    /\ Ended
    /\ Len(failures) = 1
    /\ Cites(failures[1], env.tag.text)
    /\ ~NetworkUsed
    /\ "Publish" \notin StagesEntered

(***************************************************************************)
(* C17, as stated: a run whose tag, after stripping a single leading 'v',  *)
(* does not parse as a semantic version fails with a message naming that   *)
(* tag, before any network call and before Publish.                        *)
(***************************************************************************)
C17_InvalidTagRejected == Running /\ InvalidTag => RejectedForTag

(***************************************************************************)
(* C17, amended: a run that has its repository name and was triggered by   *)
(* a release, and whose tag, after stripping a single leading 'v', does    *)
(* not parse as a semantic version, fails with a message naming that tag,  *)
(* before any network call and before Publish.                             *)
(***************************************************************************)
C17_InvalidReleaseTagRejected ==
    Running /\ env.repository # "" /\ env.eventName = "release" /\ InvalidTag
        => RejectedForTag

\* the release v1.0 has been rejected by name
C17_Witness ==
    /\ Ended
    /\ env.tag.text = "v1.0"
    /\ failures = <<InvalidSemver(env.tag)>>
    /\ ~NetworkUsed

\* the stage entered last, "" before the first
LastStage == IF Executed = <<>> THEN "" ELSE Executed[Len(Executed)]

\* the stages after archiving
LaterStages ==
    {"BuildManifest", "Publish", "Attest", "AttachAttestation", "EmitOutputs"}

(***************************************************************************)
(* C18: when the checkout verification, the temp-directory creation, the   *)
(* staging or the archiving collaborator fails with message M, run         *)
(* surfaces exactly M and no later stage executes: staging is entered only *)
(* with the tag's commit checked out, and an Error caught in Stage or      *)
(* Archive is the one failure message, with no manifest, publish or        *)
(* output after it.                                                        *)
(***************************************************************************)
C18_CollaboratorErrorVerbatim ==
    /\ "Stage" \in StagesEntered => env.checkedOut
    /\ caught.isError /\ LastStage \in {"Stage", "Archive"} =>
           /\ failures = <<caught.err>>
           /\ StagesEntered \cap LaterStages = {}
           /\ outputs = <<>>
           /\ ~NetworkUsed

\* the names of the outputs set, in order
OutputNames == [i \in DOMAIN outputs |-> outputs[i].name]

Succeeded == Ended /\ pub.pc = "resolved"

(***************************************************************************)
(* C19: in enterprise mode a successful run sets exactly three outputs,    *)
(* package-url, package-manifest and package-manifest-sha, and no          *)
(* enterprise run invokes attestation generate or attach.                  *)
(***************************************************************************)
C19_EnterpriseThreeOutputs ==
    env.isEnterprise =>
        /\ Succeeded =>
               OutputNames =
                   <<"package-url", "package-manifest", "package-manifest-sha">>
        /\ StagesEntered \cap {"Attest", "AttachAttestation"} = {}

\* an enterprise run has succeeded and set its outputs
C19_Witness ==
    /\ env.isEnterprise
    /\ Succeeded
    /\ Len(outputs) = 3
    /\ outputs[1] = Output("package-url", PackageURL)

(***************************************************************************)
(* C20: outside enterprise mode a successful run sets exactly five         *)
(* outputs: package-url, package-manifest, package-manifest-sha,           *)
(* attestation-manifest-sha and attestation-url.                           *)
(***************************************************************************)
C20_NonEnterpriseFiveOutputs ==
    ~env.isEnterprise /\ Succeeded =>
        /\ Len(outputs) = 5
        /\ {outputs[i].name : i \in DOMAIN outputs} =
               {"package-url", "package-manifest", "package-manifest-sha",
                "attestation-manifest-sha", "attestation-url"}

\* the places of stage st in the stage log
PlacesOf(st) == {i \in DOMAIN stages : stages[i] = st}

\* stage b is entered only after stage a
OnlyAfter(b, a) ==
    \A j \in PlacesOf(b) : \E i \in PlacesOf(a) : i < j

(***************************************************************************)
(* C21: outside enterprise mode attestation generate is invoked only       *)
(* after Publish has succeeded, attach only after generate, and the        *)
(* outputs are emitted only after attach; a failure of generate or attach  *)
(* ends the run with its own message and without outputs.                  *)
(***************************************************************************)
C21_AttestationOrder ==
    ~env.isEnterprise =>
        /\ OnlyAfter("Attest", "Publish")
        /\ "Attest" \in StagesEntered => pub.pc = "resolved"
        /\ OnlyAfter("AttachAttestation", "Attest")
        /\ OnlyAfter("EmitOutputs", "AttachAttestation")
        /\ outputs # <<>> => "AttachAttestation" \in StagesEntered
        /\ LastStage \in {"Attest", "AttachAttestation"} /\ caught.isError =>
               failures = <<caught.err>> /\ outputs = <<>>

\* the number of requests of the given method sent by task i (0: the manifest)
SentBy(i, method) ==
    Copies({r \in Sent : r.layer = i /\ r.method = method})

\* some request of the publish was answered with a failure
FailingResponse ==
    \/ \E i \in DOMAIN tasks :
        \/ tasks[i].headResp.status \notin {0, 200, 202, 404}
        \/ tasks[i].postResp.status \notin {0, 202}
        \/ tasks[i].putResp.status \notin {0, 201}
    \/ manifestResp.status \notin {0, 201}

(***************************************************************************)
(* C22: no request is retried: each layer sends at most one HEAD, one POST *)
(* and one blob PUT, at most one manifest PUT is sent, and one failing     *)
(* response fails the whole publish.                                       *)
(***************************************************************************)
C22_NoRetry ==
    /\ \A i \in DOMAIN tasks :
           \A method \in {"HEAD", "POST", "PUT"} : SentBy(i, method) <= 1
    /\ SentBy(0, "PUT") <= 1
    /\ FailingResponse => pub.pc = "rejected"

\* a blob PUT has failed while another layer is still being uploaded
C22_Witness ==
    /\ \E i \in DOMAIN tasks :
           /\ tasks[i].putResp.status = 400
           /\ SentBy(i, "PUT") = 1
    /\ \E j \in DOMAIN tasks : tasks[j].pc \in {"head", "post", "put"}
    /\ pub.pc = "rejected"

\* the builds that have been hashed
Hashed == {i \in DOMAIN builds : builds[i].digest # ""}

EmptyConfigJSON == "{}"

(***************************************************************************)
(* C24: the body of the blob PUT of the config layer is the literal {},    *)
(* and no file is read for it; the body of the blob PUT of every other     *)
(* layer is the bytes of that layer's archive.                             *)
(***************************************************************************)
C24_BlobBodies ==
    /\ \A i \in DOMAIN tasks : \A r \in BlobPutsOf(i) :
           IF manifest.layers[i].mediaType = MediaConfig
           THEN r.body = EmptyConfigJSON
           ELSE r.body = FileContents(FileOf(manifest.layers[i]).path)
    /\ \A i \in DOMAIN tasks :
           manifest.layers[i].mediaType = MediaConfig =>
               tasks[i].err # ReadError

(***************************************************************************)
(* C25: the manifest PUT goes to v2/<repo>/manifests/<tag> when a version  *)
(* tag is given, and to v2/<repo>/manifests/<digest>, with the digest      *)
(* computed locally from the manifest, when none is given.                 *)
(***************************************************************************)
C25_ManifestTarget ==
    \A r \in ManifestPuts :
        r.url = <<"v2/" \o repository \o "/manifests/"
                    \o (IF semverArg # NoTag THEN semverArg
                        ELSE ManifestDigest(manifest))>>

(***************************************************************************)
(* C26: when the removal of a temp directory fails in the Cleanup of a run *)
(* that has already failed, the originating failure stays the one          *)
(* surfaced: the failure message is still the original one and no cleanup  *)
(* error leaves run.                                                       *)
(***************************************************************************)
C26_CleanupErrorNotMasking ==
    Failed =>
        /\ caught.isError => failures = <<caught.err>>
        /\ \A i \in DOMAIN failures : failures[i].kind # RemoveError("").kind
        /\ escaped = NoErr

(***************************************************************************)
(* C27: within a layer task the requests are in sequence: the POST is sent *)
(* only after that layer's HEAD was answered 404, the blob PUT only after  *)
(* that layer's POST was answered 202 with a location, and the PUT goes to *)
(* the location of that layer's own POST, with that layer's digest.        *)
(***************************************************************************)
C27_LayerRequestsSequenced ==
    \A i \in DOMAIN tasks :
        /\ SentBy(i, "POST") > 0 => SentBy(i, "HEAD") > 0
        /\ SentBy(i, "POST") > 0 => tasks[i].headResp.status = 404
        /\ BlobPutsOf(i) # {} =>
               /\ SentBy(i, "POST") > 0
               /\ tasks[i].postResp.status = 202
               /\ tasks[i].postResp.location # Undefined
        /\ \A r \in BlobPutsOf(i) :
               r.url = <<tasks[i].postResp.location, "?digest=",
                         manifest.layers[i].digest>>

\* two layers were given different locations and each has sent its PUT
C27_Witness ==
    \E i, j \in DOMAIN tasks :
        /\ BlobPutsOf(i) # {} /\ BlobPutsOf(j) # {}
        /\ tasks[i].postResp.location # tasks[j].postResp.location

\* the layer tasks that have not settled
Pending == {i \in DOMAIN tasks : tasks[i].pc \in {"head", "post", "put"}}

\* the layer tasks that have failed
FailedTasks == {i \in DOMAIN tasks : tasks[i].pc = "failed"}

\* run has reported the failure of the publish
PublishReportedFailed == Ended /\ pub.pc = "rejected" /\ failures # <<>>

(***************************************************************************)
(* C28: after a layer task has failed and the publish has been reported    *)
(* as failed, the remaining layer tasks are not cancelled (a pending task  *)
(* can still take its next step) and their results are discarded: no step  *)
(* after the report sends a manifest PUT, adds a failure message, sets an  *)
(* output or changes how the publish settled.                              *)
(***************************************************************************)
C28_ResultsDiscarded ==
    /\ [](PublishReportedFailed /\ Pending # {} => ENABLED <<NextRun>>_vars)
    /\ [][PublishReportedFailed =>
            /\ ManifestPuts' = ManifestPuts
            /\ failures' = failures
            /\ outputs' = outputs
            /\ pub' = pub
            /\ rpc' = rpc]_vars

\* the publish was reported failed at the first failure, and a second task
\* has failed since; every task has run to completion
C28_Witness ==
    /\ PublishReportedFailed
    /\ Cardinality(FailedTasks) >= 2
    /\ Pending = {}
    /\ Len(failures) = 1
    /\ ManifestPuts = {}
    /\ outputs = <<>>

(***************************************************************************)
(* C29: a second publish of the same inputs, against the registry as the   *)
(* first publish left it, sends no POST and no blob PUT for a blob that    *)
(* the first publish stored.                                               *)
(***************************************************************************)
C29_RerunSkipsStoredBlobs ==
    reg.attempt = 2 =>
        \A i \in DOMAIN tasks :
            manifest.layers[i].digest \in reg.first =>
                SentBy(i, "POST") = 0 /\ BlobPutsOf(i) = {}

\* the first publish stored one blob and failed on another; the second has
\* checked the stored one, uploaded the other and resolved
C29_Witness ==
    /\ reg.attempt = 2
    /\ pub.pc = "resolved"
    /\ \E i, j \in DOMAIN tasks :
        /\ manifest.layers[i].digest \in reg.first
        /\ SentBy(i, "HEAD") = 1
        /\ manifest.layers[j].digest \notin reg.first
        /\ BlobPutsOf(j) # {}

\* the directories tracked for cleanup
Tracked == {tmpDirs[i] : i \in DOMAIN tmpDirs}

(***************************************************************************)
(* C30: every temp directory the run creates is tracked for cleanup as     *)
(* soon as it exists, and none of them exists after the run has ended,     *)
(* also when the step that created it, or a later step, failed.            *)
(***************************************************************************)
C30_NoDirectoryLeft ==
    /\ ~Ended => dirs \subseteq Tracked
    /\ Ended => dirs = {}

(***************************************************************************)
(* Property vocabulary of C31.                                             *)
(***************************************************************************)
\* the values given to core.setOutput under a name
OutputValues(name) ==
    {outputs[i].value : i \in {j \in DOMAIN outputs : outputs[j].name = name}}

\* the digest of a serialization
Sha256Of(bytes) == "sha256:" \o bytes

\* the bytes sent as the body of the manifest PUT
ManifestBodies == {r.body : r \in ManifestPuts}

(***************************************************************************)
(* C31: the manifest is not changed once its digest has been computed: the *)
(* bytes sent in the manifest PUT, the bytes set as package-manifest and   *)
(* the bytes the package-manifest-sha was computed from are the same, and  *)
(* the digest is computed before the first network call.                   *)
(***************************************************************************)
C31_ManifestBytesAgree ==
    /\ [](/\ NetworkUsed => manifestHash # ""
          /\ \A b \in ManifestBodies : Sha256Of(b) = manifestHash
          /\ \A v \in OutputValues("package-manifest") :
                /\ Sha256Of(v) = manifestHash
                /\ ManifestBodies = {v}
          /\ \A h \in OutputValues("package-manifest-sha") : h = manifestHash)
    /\ [][manifestHash # "" => /\ manifest' = manifest
                               /\ manifestHash' = manifestHash]_vars

C31_Witness ==
    /\ Succeeded
    /\ ManifestBodies # {}
    /\ OutputValues("package-manifest") # {}
    /\ OutputValues("package-manifest-sha") = {manifestHash}

(***************************************************************************)
(* Property vocabulary of C32.                                             *)
(***************************************************************************)
\* the requests of layer i that the fixed answers call for
ExpectedOf(i) ==
    LET layer == manifest.layers[i]
        a     == answers.layer[layer.digest]
        auth  == Authorization(Base64(token))
    IN  {[method |-> "HEAD", url |-> <<checkBlobEndpoint, layer.digest>>,
          auth |-> auth, body |-> "", layer |-> i]}
        \cup
        (IF a.head.status # 404 THEN {}
         ELSE {[method |-> "POST", url |-> <<uploadBlobEndpoint>>,
                auth |-> auth, body |-> Stringify(layer), layer |-> i],
               [method |-> "PUT",
                url |-> <<a.post.location, "?digest=", layer.digest>>,
                auth |-> auth,
                body |-> IF layer.mediaType = MediaTar
                         THEN FileContents(tarFile.path)
                         ELSE IF layer.mediaType = MediaZip
                         THEN FileContents(zipFile.path)
                         ELSE "",
                layer |-> i]})

\* the requests of a whole publish that the fixed answers call for
ExpectedRequests ==
    UNION {ExpectedOf(i) : i \in Layers}
    \cup {[method |-> "PUT", url |-> <<manifestEndpoint>>,
           auth |-> Authorization(Base64(token)),
           body |-> Stringify(manifest), layer |-> 0]}

\* the result the fixed answers call for
ExpectedResult ==
    IF answers.manifest.status = 201
    THEN [pc |-> "resolved", err |-> NoErr, url |-> PackageURL]
    ELSE [pc |-> "rejected", err |-> PutManifestError(answers.manifest),
          url |-> ""]

Settled == pub.pc \in {"resolved", "rejected"}

(***************************************************************************)
(* C32: the layer tasks share no mutable state: with the registry's        *)
(* answers fixed per layer digest and no layer failing, every interleaving *)
(* of the tasks sends the same multiset of requests and ends in the same   *)
(* result, both determined by the manifest and the answers alone.          *)
(***************************************************************************)
C32_InterleavingIndependent ==
    /\ requests \sqsubseteq SetToBag(ExpectedRequests)
    /\ Settled => /\ requests = SetToBag(ExpectedRequests)
                  /\ pub = ExpectedResult

\* a publish of three layers, one present and two uploaded, has settled
C32_Witness ==
    /\ Settled
    /\ Len(tasks) = 3
    /\ \E i, j \in Layers : /\ i < j
                            /\ BlobPutsOf(i) # {}
                            /\ BlobPutsOf(j) # {}
    /\ \E i \in Layers : UploadsOf(i) = {}

(***************************************************************************)
(* Property vocabulary of C33.                                             *)
(***************************************************************************)
\* the temp directory of the archives has been removed by the cleanup
ArchiveDirRemoved ==
    /\ Ended
    /\ "archive" \in Tracked
    /\ "archive" \notin dirs

\* the step calls readFileContents for the archive file of layer i: the
\* task leaves its upload initiation with the file read or the read failed
ReadsArchive(i) ==
    /\ tasks[i].pc = "post"
    /\ FileOf(manifest.layers[i]).size # 0
    /\ \/ tasks'[i].pc = "put"
       \/ tasks'[i].pc = "failed" /\ tasks'[i].err = ReadError

(***************************************************************************)
(* C33: no layer task reads an archive file after the cleanup has removed  *)
(* the temp directory that holds it.                                       *)
(***************************************************************************)
C33_NoReadAfterCleanup ==
    [][ArchiveDirRemoved => \A i \in DOMAIN tasks : ~ReadsArchive(i)]_vars

(***************************************************************************)
(* Property vocabulary of C34.                                             *)
(***************************************************************************)
\* the layers of the manifest that carry the digest d
LayersOf(d) == {i \in Layers : manifest.layers[i].digest = d}

\* the upload initiations and the blob PUTs sent for the digest d
PostsFor(d) == {r \in Sent : r.layer \in LayersOf(d) /\ r.method = "POST"}

BlobPutsFor(d) == {r \in Sent : r.layer \in LayersOf(d) /\ r.method = "PUT"}

(***************************************************************************)
(* C34: no blob digest is uploaded more than once in a publish: when two   *)
(* layers carry the same digest and the registry reports it absent, at     *)
(* most one POST and PUT pair is sent for that digest.                     *)
(***************************************************************************)
C34_DigestUploadedOnce ==
    \A d \in {manifest.layers[i].digest : i \in Layers} :
        /\ Copies(PostsFor(d)) <= 1
        /\ Copies(BlobPutsFor(d)) <= 1

C36_CleanupAttemptsAll ==
    Ended => \A i \in DOMAIN tmpDirs :
                 tmpDirs[i] \in dirs => escaped = RemoveError(tmpDirs[i])

(***************************************************************************)
(* Property vocabulary of C37.                                             *)
(***************************************************************************)
Removals == {removeCalls[i] : i \in DOMAIN removeCalls}

\* the directories the run has made itself: the staging directory when the
\* staging step reported it, and the archive directory
MadeByRun ==
    (IF consolidated.needToCleanUpDir THEN {consolidated.path} ELSE {})
    \cup (IF "Archive" \in StagesEntered THEN {"archive"} ELSE {})

C38_PublishTerminates ==
    /\ <>Settled
    /\ [](pub.pc = "resolved" => pub.url = PackageURL /\ pub.err = NoErr)
    /\ [](pub.pc = "rejected" => pub.err # NoErr)
    /\ [][Settled => pub' = pub]_vars

\* a publish of three layers has resolved after the answer to its manifest
\* PUT, the last of its requests
C38_Witness ==
    /\ pub.pc = "resolved"
    /\ pub.url = PackageURL
    /\ Len(tasks) = 3
    /\ Pending = {}
    /\ manifestResp.status = 201

============================================================================
